---- MODULE Spec2Model ----
(***************************************************************************)
(* Repository access validator (pkg/access) and the gated tool handlers    *)
(* (pkg/github) of github-mcp-server.                                      *)
(*                                                                         *)
(* Strings are sequences of one-character strings, so that HasPrefix,      *)
(* TrimSuffix, Split and Count act on them as the Go code does.            *)
(***************************************************************************)
EXTENDS Naturals, Sequences, FiniteSets, TLC

(***************************************************************************)
(* Bounds of the model.                                                    *)
(***************************************************************************)
\* number of goroutines that call Validator.Initialize
NumInitializers == 2
\* number of goroutines that call IsRepositoryAccessible / GetAccessibleRepositories
NumReaders == 2
\* longest res.Output the resource map service answers with
MaxOutput == 2

(***************************************************************************)
(* Strings.                                                                *)
(***************************************************************************)
GITHUB == <<"g", "i", "t", "h", "u", "b", ".", "c", "o", "m">>
SLASH == <<"/">>
DOTGIT == <<".", "g", "i", "t">>
HTTP == <<"h", "t", "t", "p", ":", "/", "/">>
HTTPS == <<"h", "t", "t", "p", "s", ":", "/", "/">>
EMPTY == <<>>

HasPrefix(s, prefix) ==
    /\ Len(s) >= Len(prefix)
    /\ SubSeq(s, 1, Len(prefix)) = prefix

HasSuffix(s, suffix) ==
    /\ Len(s) >= Len(suffix)
    /\ SubSeq(s, Len(s) - Len(suffix) + 1, Len(s)) = suffix

TrimPrefix(s, prefix) ==
    IF HasPrefix(s, prefix) THEN SubSeq(s, Len(prefix) + 1, Len(s)) ELSE s

\* a TrimSuffix that removes nothing
TrimSuffixKeeps(s, suffix) == s

TrimSuffix(s, suffix) ==
    IF HasSuffix(s, suffix) THEN SubSeq(s, 1, Len(s) - Len(suffix)) ELSE s

Count(s, c) == Cardinality({i \in 1..Len(s) : s[i] = c})

RECURSIVE SplitFrom(_, _, _)
SplitFrom(s, i, cur) ==
    IF i > Len(s) THEN <<cur>>
    ELSE IF s[i] = "/" THEN <<cur>> \o SplitFrom(s, i + 1, EMPTY)
    ELSE SplitFrom(s, i + 1, Append(cur, s[i]))

\* strings.Split(s, "/")
Split(s) == SplitFrom(s, 1, EMPTY)

\* fmt.Sprintf("github.com/%s", path)
SprintfGithub(path) == GITHUB \o SLASH \o path

\* fmt.Sprintf("github.com/%s/%s", owner, repo)
SprintfRepoURL(owner, repo) == GITHUB \o SLASH \o owner \o SLASH \o repo

\* index of the first "/" of s at or after position i, Len(s) + 1 when none
RECURSIVE FirstSlash(_, _)
FirstSlash(s, i) ==
    IF i > Len(s) THEN Len(s) + 1
    ELSE IF s[i] = "/" THEN i
    ELSE FirstSlash(s, i + 1)

\* url.Parse of "<scheme>://<host><path>": Host is the text up to the first
\* "/" after the scheme, in the case it was written in; Path is the rest.
UrlParse(s) ==
    LET rest == IF HasPrefix(s, HTTPS) THEN TrimPrefix(s, HTTPS) ELSE TrimPrefix(s, HTTP)
        cut == FirstSlash(rest, 1)
    IN  [Host |-> SubSeq(rest, 1, cut - 1), Path |-> SubSeq(rest, cut, Len(rest))]

(***************************************************************************)
(* normalizeRepositoryURL and isValidRepoPath.                             *)
(***************************************************************************)
\* an isValidRepoPath that only counts the parts
isValidRepoPathCountOnly(path) == Len(Split(path)) = 2

\* an isValidRepoPath that accepts further parts after the first two
isValidRepoPathAtLeastTwo(path) ==
    LET parts == Split(path)
    IN  Len(parts) >= 2 /\ parts[1] # EMPTY /\ parts[2] # EMPTY

isValidRepoPath(path) ==
    IF path = EMPTY THEN FALSE
    ELSE LET parts == Split(path)
         IN  IF Len(parts) # 2 THEN FALSE
             ELSE parts[1] # EMPTY /\ parts[2] # EMPTY

NormErr == [key |-> EMPTY, err |-> TRUE]
NormOk(path) == [key |-> SprintfGithub(path), err |-> FALSE]

normalizeRepositoryURL(repoURL) ==
    IF repoURL = EMPTY THEN NormErr
    ELSE IF HasPrefix(repoURL, HTTP) \/ HasPrefix(repoURL, HTTPS) THEN
        LET parsedURL == UrlParse(repoURL)
            path == TrimSuffix(TrimPrefix(parsedURL.Path, SLASH), DOTGIT)
        IN  IF parsedURL.Host # GITHUB THEN NormErr
            ELSE IF ~isValidRepoPath(path) THEN NormErr
            ELSE NormOk(path)
    ELSE IF HasPrefix(repoURL, GITHUB \o SLASH) THEN
        LET path == TrimSuffix(TrimPrefix(repoURL, GITHUB \o SLASH), DOTGIT)
        IN  IF ~isValidRepoPath(path) THEN NormErr ELSE NormOk(path)
    ELSE IF Count(repoURL, "/") = 1 THEN
        LET path == TrimSuffix(repoURL, DOTGIT)
        IN  IF ~isValidRepoPath(path) THEN NormErr ELSE NormOk(path)
    ELSE NormErr

(***************************************************************************)
(* The resource map service (GetAllAccessibleRepos) and the conversion of  *)
(* its answer (fetchAccessibleRepositories).                               *)
(***************************************************************************)
\* the github/repository nodes the service may answer with; a property the
\* node lacks reads as the empty string
Nodes ==
    { [org |-> <<"a">>, name |-> <<"r">>],
      [org |-> <<"B">>, name |-> <<"q">>],
      [org |-> EMPTY, name |-> <<"r">>],
      [org |-> <<"a">>, name |-> <<"r", "/", "x">>] }

RECURSIVE SeqsUpTo(_, _)
SeqsUpTo(S, n) ==
    IF n = 0 THEN {EMPTY}
    ELSE LET shorter == SeqsUpTo(S, n - 1)
         IN  shorter \cup {Append(s, x) : s \in shorter, x \in S}

\* every res.Output of at most MaxOutput nodes
Outputs == SeqsUpTo(Nodes, MaxOutput)

\* GetAllAccessibleRepos, the loop over res.Output: a node is kept when both
\* its name and its org are non-empty
RECURSIVE GetAllAccessibleRepos(_)
GetAllAccessibleRepos(output) ==
    IF output = EMPTY THEN EMPTY
    ELSE LET node == Head(output)
             rest == GetAllAccessibleRepos(Tail(output))
         IN  IF node.name # EMPTY /\ node.org # EMPTY
             THEN <<[repo |-> node.name, org |-> node.org]>> \o rest
             ELSE rest

\* fetchAccessibleRepositories, the conversion of the repository structs
fetchAccessibleRepositories(output) ==
    LET list == GetAllAccessibleRepos(output)
    IN  [i \in 1..Len(list) |-> SprintfRepoURL(list[i].org, list[i].repo)]

Range(s) == {s[i] : i \in 1..Len(s)}

(***************************************************************************)
(* Processes.                                                              *)
(***************************************************************************)
Initializers == {<<"init", i>> : i \in 1..NumInitializers}
Readers == {<<"reader", i>> : i \in 1..NumReaders}
Handlers == {<<"handler", 1>>}
\* a caller that asks about any reference, one call after the other
Clients == {<<"client", 1>>}
\* a goroutine that runs the handler of a tool without access validation
UngatedHandlers == {<<"ungated", 1>>}
Callers == Readers \cup Handlers \cup Clients \cup UngatedHandlers
Procs == Initializers \cup Callers
NoOne == <<"none">>

\* the references the readers ask about
RefShort == <<"a", "/", "r">>
RefHttpsGit == HTTPS \o GITHUB \o SLASH \o RefShort \o DOTGIT
RefOther == GITHUB \o SLASH \o <<"B", "/", "r">>
RefOwnerOnly == <<"a">>
RefInputs == {RefHttpsGit, RefOther, RefOwnerOnly, EMPTY}

\* the arguments normalizeRepositoryURL is called with: a form (owner/repo,
\* github.com/owner/repo, a URL of github.com or of another host), an owner
\* and a repository name in either letter case or empty, and an ending
OTHERHOST == <<"e", "x", ".", "c", "o", "m">>
\* github.com as the tests also write it
GITHUBMIXED == <<"G", "i", "t", "H", "u", "b", ".", "c", "o", "m">>
\* the forms that name github.com as the code spells it
GithubForms ==
    {EMPTY, GITHUB \o SLASH, HTTP \o GITHUB \o SLASH, HTTPS \o GITHUB \o SLASH}
Forms ==
    GithubForms \cup
    {HTTPS \o OTHERHOST \o SLASH, HTTPS \o GITHUBMIXED \o SLASH, GITHUBMIXED \o SLASH}
OwnerNames == {<<"a">>, <<"A">>, EMPTY}
RepoNames == {<<"r">>, <<"R">>, EMPTY}
Endings == {EMPTY, DOTGIT, DOTGIT \o DOTGIT, SLASH \o <<"x">>}
NormInputs ==
    { form \o owner \o SLASH \o repo \o ending :
        form \in Forms, owner \in OwnerNames, repo \in RepoNames, ending \in Endings }
    \cup {EMPTY, <<"a">>}

VARIABLES
    initialized,      \* Validator.initialized
    accessibleRepos,  \* Validator.accessibleRepos, the set of its keys
    mu,               \* Validator.mu: the writer and the readers holding it
    exited,           \* the process has ended in log.Fatalf
    pc,               \* where each goroutine is
    ini,              \* Initialize's locals, and the deadline its caller holds
    rd,               \* the locals of IsRepositoryAccessible / GetAccessibleRepositories
    hd,               \* the locals of a gated tool handler
    obs,              \* history, per goroutine
    hist,             \* history, global
    norm,             \* a caller of normalizeRepositoryURL: its arguments and results
    cmd,              \* the validate-access command: its position, flags and output
    rg                \* resolveGitReference: its position, arguments and locals

vars == <<initialized, accessibleRepos, mu, exited, pc, ini, rd, hd, obs, hist, norm, cmd, rg>>

NoResult == [ok |-> FALSE, err |-> "none"]
IniIdle == [repos |-> EMPTY, idx |-> 0, ret |-> "none", deadline |-> FALSE]
RdIdle == [ref |-> EMPTY, res |-> NoResult, snap |-> EMPTY]
HdIdle == [kind |-> "none", variant |-> "none", owner |-> EMPTY, repo |-> EMPTY,
           calls |-> 0, result |-> "none"]
\* fetched: what this call's own fetch gave (none, ok, err)
\* readyAtLock: initialized, when this call took the lock
\* waited: how the last attempt ended that completed while this call waited
\* staleCall: an attempt failed after this call was made
\* staleAttempt: an attempt failed after this call took the lock
\* afterOk: an Initialize had returned nil when this call was made
ObsIdle == [fetched |-> "none", readyAtLock |-> FALSE, waited |-> "none",
            staleCall |-> FALSE, staleAttempt |-> FALSE, afterOk |-> FALSE]
\* fetched: the keys of the last successful fetch
HistInit == [fetched |-> {}, everFailed |-> FALSE, initReturnedOk |-> FALSE]
\* x, y: two arguments; nx, ny: their results; nnx: the result for nx.key
NoNorm == [key |-> EMPTY, err |-> FALSE]
NormIdle == [pc |-> "idle", x |-> EMPTY, y |-> EMPTY, nx |-> NoNorm, ny |-> NoNorm,
             nnx |-> NoNorm]

\* out: what the command has printed; ret: what RunE returned; calls: the
\* calls of the validator it has made, in order, with their results
CmdIdle == [pc |-> "idle", repoURL |-> EMPTY, out |-> "none", ret |-> "none", calls |-> <<>>]
\* lookups: the API calls made, in order, each with its reference name and
\* its outcome; reference: the *github.Reference held; ref: the local ref
NoReference == [name |-> EMPTY, sha |-> "none"]
RgIdle == [pc |-> "idle", owner |-> EMPTY, repo |-> EMPTY,
           originalRef |-> EMPTY, sha |-> "", ref |-> EMPTY,
           reference |-> NoReference, lookups |-> <<>>, ret |-> "none", resultSHA |-> ""]

\* NewValidator
Init ==
    /\ initialized = FALSE
    /\ accessibleRepos = {}
    /\ mu = [writer |-> NoOne, readers |-> {}]
    /\ exited = FALSE
    /\ pc = [p \in Procs |-> "idle"]
    /\ ini = [p \in Initializers |-> IniIdle]
    /\ rd = [p \in Callers |-> RdIdle]
    /\ hd = [p \in Handlers \cup UngatedHandlers |-> HdIdle]
    /\ obs = [p \in Procs |-> ObsIdle]
    /\ hist = HistInit
    /\ norm = NormIdle
    /\ cmd = CmdIdle
    /\ rg = RgIdle

(***************************************************************************)
(* Validator.mu, a sync.RWMutex.                                           *)
(***************************************************************************)
\* a Lock that does not wait for the goroutines holding the lock
LockFreeNoWait == TRUE

\* v.mu.Lock() returns when no goroutine holds the lock
LockFree == mu.writer = NoOne /\ mu.readers = {}

\* an RLock that does not wait for the writer
RLockFreeNoWait == TRUE

\* v.mu.RLock() returns when no writer holds the lock
RLockFree == mu.writer = NoOne

(***************************************************************************)
(* Validator.Initialize.                                                   *)
(***************************************************************************)
\* an Initialize without the test of v.initialized
InitializeNeverNoOp(init) == FALSE

\* if v.initialized { return nil }
InitializeIsNoOp(init) == init

\* an Initialize that drops the error of the fetch
InitializeIgnoresErr(err) == FALSE

\* if err != nil { return fmt.Errorf("failed to fetch ...") }
InitializeFails(err) == err

\* an insertion that overwrites the set
InsertRepoOverwrites(set, repo) == {repo}

\* v.accessibleRepos[repo] = struct{}{}
InsertRepo(set, repo) == set \cup {repo}

\* the caller invokes Initialize; the deadline it holds may already be over
InitializeCall(p) ==
    /\ ~exited
    /\ pc[p] = "idle"
    /\ \E expired \in BOOLEAN :
          ini' = [ini EXCEPT ![p] = [IniIdle EXCEPT !.deadline = expired]]
    /\ pc' = [pc EXCEPT ![p] = "i_lock"]
    /\ obs' = [obs EXCEPT ![p] = ObsIdle]
    /\ UNCHANGED <<initialized, accessibleRepos, mu, exited, rd, hd, hist, norm, cmd, rg>>

\* the caller's deadline passes while Initialize has not finished its fetch
DeadlineElapses(p) ==
    /\ ~exited
    /\ pc[p] \in {"i_lock", "i_check", "i_fetch"}
    /\ ~ini[p].deadline
    /\ ini' = [ini EXCEPT ![p].deadline = TRUE]
    /\ UNCHANGED <<initialized, accessibleRepos, mu, exited, pc, rd, hd, obs, hist, norm, cmd, rg>>

\* v.mu.Lock()
InitializeLock(p) ==
    /\ ~exited
    /\ pc[p] = "i_lock"
    /\ LockFree
    /\ mu' = [mu EXCEPT !.writer = p]
    /\ pc' = [pc EXCEPT ![p] = "i_check"]
    /\ obs' = [obs EXCEPT ![p].readyAtLock = initialized]
    /\ UNCHANGED <<initialized, accessibleRepos, exited, ini, rd, hd, hist, norm, cmd, rg>>

\* if v.initialized { return nil }; otherwise v.fetchAccessibleRepositories()
\* is called
InitializeCheck(p) ==
    /\ ~exited
    /\ pc[p] = "i_check"
    /\ IF InitializeIsNoOp(initialized)
       THEN /\ ini' = [ini EXCEPT ![p].ret = "nil"]
            /\ pc' = [pc EXCEPT ![p] = "i_ret"]
       ELSE /\ pc' = [pc EXCEPT ![p] = "i_fetch"]
            /\ UNCHANGED ini
    /\ UNCHANGED <<initialized, accessibleRepos, mu, exited, rd, hd, obs, hist, norm, cmd, rg>>

\* what the end of an attempt leaves in the history of the other callers
ObsAfterFetch(p, outcome) ==
    [q \in Procs |->
        IF q = p THEN [obs[q] EXCEPT !.fetched = outcome]
        ELSE IF q \notin Initializers \/ pc[q] = "idle" THEN obs[q]
        ELSE [obs[q] EXCEPT
                !.waited = IF pc[q] = "i_lock" THEN outcome ELSE @,
                !.staleCall = @ \/ outcome = "err",
                !.staleAttempt = @ \/ (outcome = "err" /\ pc[q] # "i_lock")]]

\* client.Traverse returns, with an error or with res.Output, and
\* fetchAccessibleRepositories returns to Initialize
FetchReturn(p) ==
    /\ ~exited
    /\ pc[p] = "i_fetch"
    /\ \E err \in BOOLEAN, output \in Outputs :
          /\ err => output = EMPTY
          /\ LET repos == IF err THEN EMPTY ELSE fetchAccessibleRepositories(output)
                 outcome == IF err THEN "err" ELSE "ok"
             IN  /\ IF InitializeFails(err)
                    THEN /\ ini' = [ini EXCEPT ![p].ret = "FetchFailed"]
                         /\ pc' = [pc EXCEPT ![p] = "i_ret"]
                    ELSE /\ ini' = [ini EXCEPT ![p].repos = repos]
                         /\ pc' = [pc EXCEPT ![p] = "i_clear"]
                 /\ obs' = ObsAfterFetch(p, outcome)
                 /\ hist' = [hist EXCEPT
                                !.fetched = IF err THEN @ ELSE Range(repos),
                                !.everFailed = @ \/ err]
    /\ UNCHANGED <<initialized, accessibleRepos, mu, exited, rd, hd, norm, cmd, rg>>

\* initialise: grpc.NewClient or pb.NewSyncClient fails and log.Fatalf ends
\* the process
FetchFatal(p) ==
    /\ ~exited
    /\ pc[p] = "i_fetch"
    /\ exited' = TRUE
    /\ UNCHANGED <<initialized, accessibleRepos, mu, pc, ini, rd, hd, obs, hist, norm, cmd, rg>>

\* v.accessibleRepos = make(map[string]struct{})
InitializeClear(p) ==
    /\ ~exited
    /\ pc[p] = "i_clear"
    /\ accessibleRepos' = {}
    /\ ini' = [ini EXCEPT ![p].idx = 1]
    /\ pc' = [pc EXCEPT ![p] = "i_insert"]
    /\ UNCHANGED <<initialized, mu, exited, rd, hd, obs, hist, norm, cmd, rg>>

\* v.accessibleRepos[repo] = struct{}{}, one turn of the loop
InitializeInsert(p) ==
    /\ ~exited
    /\ pc[p] = "i_insert"
    /\ ini[p].idx <= Len(ini[p].repos)
    /\ accessibleRepos' = InsertRepo(accessibleRepos, ini[p].repos[ini[p].idx])
    /\ ini' = [ini EXCEPT ![p].idx = @ + 1]
    /\ UNCHANGED <<initialized, mu, exited, pc, rd, hd, obs, hist, norm, cmd, rg>>

\* v.initialized = true; return nil
InitializeSet(p) ==
    /\ ~exited
    /\ pc[p] = "i_insert"
    /\ ini[p].idx > Len(ini[p].repos)
    /\ initialized' = TRUE
    /\ ini' = [ini EXCEPT ![p].ret = "nil"]
    /\ pc' = [pc EXCEPT ![p] = "i_ret"]
    /\ UNCHANGED <<accessibleRepos, mu, exited, rd, hd, obs, hist, norm, cmd, rg>>

\* the deferred v.mu.Unlock(), and the return to the caller
InitializeReturn(p) ==
    /\ ~exited
    /\ pc[p] = "i_ret"
    /\ mu' = [mu EXCEPT !.writer = NoOne]
    /\ hist' = [hist EXCEPT !.initReturnedOk = @ \/ ini[p].ret = "nil"]
    /\ ini' = [ini EXCEPT ![p] = IniIdle]
    /\ obs' = [obs EXCEPT ![p] = ObsIdle]
    /\ pc' = [pc EXCEPT ![p] = "idle"]
    /\ UNCHANGED <<initialized, accessibleRepos, exited, rd, hd, norm, cmd, rg>>

(***************************************************************************)
(* Validator.IsRepositoryAccessible and GetAccessibleRepositories.         *)
(***************************************************************************)
\* an IsRepositoryAccessible without the test of v.initialized
IsRepositoryAccessibleUnchecked(init, repos, repoURL) ==
    LET n == normalizeRepositoryURL(repoURL)
    IN  IF n.err THEN [ok |-> FALSE, err |-> "InvalidReference"]
        ELSE [ok |-> n.key \in repos, err |-> "nil"]

\* an IsRepositoryAccessible that looks up its argument as it was given
IsRepositoryAccessibleRawKey(init, repos, repoURL) ==
    IF ~init THEN [ok |-> FALSE, err |-> "NotInitialized"]
    ELSE LET n == normalizeRepositoryURL(repoURL)
         IN  IF n.err THEN [ok |-> FALSE, err |-> "InvalidReference"]
             ELSE [ok |-> repoURL \in repos, err |-> "nil"]

\* an IsRepositoryAccessible that takes an empty map for a validator that is
\* not initialized
IsRepositoryAccessibleEmptyIsUnready(init, repos, repoURL) ==
    IF ~init \/ repos = {} THEN [ok |-> FALSE, err |-> "NotInitialized"]
    ELSE LET n == normalizeRepositoryURL(repoURL)
         IN  IF n.err THEN [ok |-> FALSE, err |-> "InvalidReference"]
             ELSE [ok |-> n.key \in repos, err |-> "nil"]

\* an IsRepositoryAccessible that drops the error of normalizeRepositoryURL
IsRepositoryAccessibleSwallowsErr(init, repos, repoURL) ==
    IF ~init THEN [ok |-> FALSE, err |-> "NotInitialized"]
    ELSE LET n == normalizeRepositoryURL(repoURL)
         IN  [ok |-> ~n.err /\ n.key \in repos, err |-> "nil"]

\* the body of IsRepositoryAccessible, under the read lock
IsRepositoryAccessible(init, repos, repoURL) ==
    IF ~init THEN [ok |-> FALSE, err |-> "NotInitialized"]
    ELSE LET n == normalizeRepositoryURL(repoURL)
         IN  IF n.err THEN [ok |-> FALSE, err |-> "InvalidReference"]
             ELSE [ok |-> n.key \in repos, err |-> "nil"]

\* every order of the keys of a set, each key once
Orders(S) == {s \in [1..Cardinality(S) -> S] : Range(s) = S}

\* a GetAccessibleRepositories that stops after the first key
GetAccessibleRepositoriesFirstOnly(repos) ==
    {IF Len(s) > 1 THEN <<s[1]>> ELSE s : s \in Orders(repos)}

\* the body of GetAccessibleRepositories: the keys in the order the map's
\* iteration gives them, which is any order
GetAccessibleRepositories(repos) == Orders(repos)

IsAccessibleCall(p) ==
    /\ ~exited
    /\ pc[p] = "idle"
    /\ \E repoURL \in RefInputs : rd' = [rd EXCEPT ![p] = [RdIdle EXCEPT !.ref = repoURL]]
    /\ pc' = [pc EXCEPT ![p] = "a_lock"]
    /\ obs' = [obs EXCEPT ![p] = [ObsIdle EXCEPT !.afterOk = hist.initReturnedOk]]
    /\ UNCHANGED <<initialized, accessibleRepos, mu, exited, ini, hd, hist, norm, cmd, rg>>

\* v.mu.RLock()
IsAccessibleRLock(p) ==
    /\ ~exited
    /\ pc[p] = "a_lock"
    /\ RLockFree
    /\ mu' = [mu EXCEPT !.readers = @ \cup {p}]
    /\ pc' = [pc EXCEPT ![p] = "a_body"]
    /\ UNCHANGED <<initialized, accessibleRepos, exited, ini, rd, hd, obs, hist, norm, cmd, rg>>

\* an IsRepositoryAccessible that marks the validator initialized
IsAccessibleBodyLazyInit(p) ==
    /\ ~exited
    /\ pc[p] = "a_body"
    /\ rd' = [rd EXCEPT ![p].res =
                 IsRepositoryAccessible(initialized, accessibleRepos, rd[p].ref)]
    /\ pc' = [pc EXCEPT ![p] = "a_ret"]
    /\ initialized' = TRUE
    /\ UNCHANGED <<accessibleRepos, mu, exited, ini, hd, obs, hist, norm, cmd, rg>>

IsAccessibleBody(p) ==
    /\ ~exited
    /\ pc[p] = "a_body"
    /\ rd' = [rd EXCEPT ![p].res =
                 IsRepositoryAccessible(initialized, accessibleRepos, rd[p].ref)]
    /\ pc' = [pc EXCEPT ![p] = "a_ret"]
    /\ UNCHANGED <<initialized, accessibleRepos, mu, exited, ini, hd, obs, hist, norm, cmd, rg>>

\* the deferred v.mu.RUnlock(), and the return to the caller: a reader is
\* done, a tool handler goes on with the result
IsAccessibleReturn(p) ==
    /\ ~exited
    /\ pc[p] = "a_ret"
    /\ mu' = [mu EXCEPT !.readers = @ \ {p}]
    /\ IF p \in Handlers
       THEN /\ pc' = [pc EXCEPT ![p] = "h_gate"]
            /\ UNCHANGED <<rd, obs>>
       ELSE /\ pc' = [pc EXCEPT ![p] = "idle"]
            /\ rd' = [rd EXCEPT ![p] = RdIdle]
            /\ obs' = [obs EXCEPT ![p] = ObsIdle]
    /\ UNCHANGED <<initialized, accessibleRepos, exited, ini, hd, hist, norm, cmd, rg>>

\* a client calls IsRepositoryAccessible with any of the arguments
ClientCall(p) ==
    /\ ~exited
    /\ pc[p] = "idle"
    /\ \E repoURL \in NormInputs : rd' = [rd EXCEPT ![p] = [RdIdle EXCEPT !.ref = repoURL]]
    /\ pc' = [pc EXCEPT ![p] = "a_lock"]
    /\ obs' = [obs EXCEPT ![p] = [ObsIdle EXCEPT !.afterOk = hist.initReturnedOk]]
    /\ UNCHANGED <<initialized, accessibleRepos, mu, exited, ini, hd, hist, norm, cmd, rg>>

SnapshotCall(p) ==
    /\ ~exited
    /\ pc[p] = "idle"
    /\ pc' = [pc EXCEPT ![p] = "s_lock"]
    /\ UNCHANGED <<initialized, accessibleRepos, mu, exited, ini, rd, hd, obs, hist, norm, cmd, rg>>

\* v.mu.RLock()
SnapshotRLock(p) ==
    /\ ~exited
    /\ pc[p] = "s_lock"
    /\ RLockFree
    /\ mu' = [mu EXCEPT !.readers = @ \cup {p}]
    /\ pc' = [pc EXCEPT ![p] = "s_body"]
    /\ UNCHANGED <<initialized, accessibleRepos, exited, ini, rd, hd, obs, hist, norm, cmd, rg>>

SnapshotBody(p) ==
    /\ ~exited
    /\ pc[p] = "s_body"
    /\ \E repos \in GetAccessibleRepositories(accessibleRepos) :
          rd' = [rd EXCEPT ![p].snap = repos]
    /\ pc' = [pc EXCEPT ![p] = "s_ret"]
    /\ UNCHANGED <<initialized, accessibleRepos, mu, exited, ini, hd, obs, hist, norm, cmd, rg>>

\* the deferred v.mu.RUnlock(), and the return to the caller
SnapshotReturn(p) ==
    /\ ~exited
    /\ pc[p] = "s_ret"
    /\ mu' = [mu EXCEPT !.readers = @ \ {p}]
    /\ pc' = [pc EXCEPT ![p] = "idle"]
    /\ rd' = [rd EXCEPT ![p] = RdIdle]
    /\ UNCHANGED <<initialized, accessibleRepos, exited, ini, hd, obs, hist, norm, cmd, rg>>

(***************************************************************************)
(* The gated tool handlers: GetFileContentsWithValidation,                 *)
(* GetCommitWithValidation, ListCommitsWithValidation,                     *)
(* ListBranchesWithValidation, CreateBranchWithValidation.                 *)
(***************************************************************************)
Step(call, outcomes) == [call |-> call, outcomes |-> outcomes]

\* the provider calls of a handler after its access validation, in order;
\* after a call the handler goes on to the next one ("next"), returns its
\* result ("done") or returns an error ("error")
ProviderCalls(kind, variant) ==
    CASE kind = "get_file_contents" /\ variant = "file" ->
            << Step("getClient", {"next", "error"}),
               Step("resolveGitReference", {"next", "error"}),
               Step("Repositories.GetContents", {"next", "error"}),
               Step("getRawClient", {"next", "error"}),
               Step("GetRawContent", {"next", "done", "error"}),
               Step("Repositories.GetContents", {"done", "error"}) >>
      [] kind = "get_file_contents" /\ variant = "dir" ->
            << Step("getClient", {"next", "error"}),
               Step("resolveGitReference", {"next", "error"}),
               Step("Repositories.GetContents", {"next", "done", "error"}),
               Step("Repositories.GetContents", {"done", "error"}) >>
      [] kind = "get_commit" ->
            << Step("getClient", {"next", "error"}),
               Step("Repositories.GetCommit", {"done", "error"}) >>
      [] kind = "list_commits" ->
            << Step("getClient", {"next", "error"}),
               Step("Repositories.ListCommits", {"done", "error"}) >>
      [] kind = "list_branches" ->
            << Step("getClient", {"next", "error"}),
               Step("Repositories.ListBranches", {"done", "error"}) >>
      [] kind = "create_branch" /\ variant = "default" ->
            << Step("getClient", {"next", "error"}),
               Step("Repositories.Get", {"next", "error"}),
               Step("Git.GetRef", {"next", "error"}),
               Step("Git.CreateRef", {"done", "error"}) >>
      [] kind = "create_branch" /\ variant = "from_branch" ->
            << Step("getClient", {"next", "error"}),
               Step("Git.GetRef", {"next", "error"}),
               Step("Git.CreateRef", {"done", "error"}) >>
      [] kind = "list_tags" ->
            << Step("getClient", {"next", "error"}),
               Step("Repositories.ListTags", {"done", "error"}) >>
      [] kind = "get_tag" ->
            << Step("getClient", {"next", "error"}),
               Step("Git.GetRef", {"next", "error"}),
               Step("Git.GetTag", {"done", "error"}) >>
      [] kind = "list_releases" ->
            << Step("getClient", {"next", "error"}),
               Step("Repositories.ListReleases", {"done", "error"}) >>
      [] kind = "get_issue" ->
            << Step("getClient", {"next", "error"}),
               Step("Issues.Get", {"done", "error"}) >>

\* the tools, each with the request shapes that change its provider calls:
\* a file or a directory path, from_branch given or not
Requests ==
    { <<"get_file_contents", "file">>, <<"get_file_contents", "dir">>,
      <<"get_commit", "any">>, <<"list_commits", "any">>, <<"list_branches", "any">>,
      <<"create_branch", "default">>, <<"create_branch", "from_branch">> }

OwnerInputs == {<<"a">>, <<"x">>, <<"a", "/", "b">>}
RepoInputs == {<<"r">>}

\* a handler without the test of accessible
AccessValidationErrOnly(res) ==
    IF res.err # "nil" THEN "error" ELSE "proceed"

\* what the handler does with (accessible, err) of IsRepositoryAccessible
AccessValidation(res) ==
    IF res.err # "nil" THEN "error"
    ELSE IF ~res.ok THEN "denied"
    ELSE "proceed"

\* the request arrives; RequiredParam of owner and of repo fails, or the
\* handler calls validator.IsRepositoryAccessible(repoURL)
HandlerCall(h) ==
    /\ ~exited
    /\ pc[h] = "idle"
    /\ \E req \in Requests, owner \in OwnerInputs, repo \in RepoInputs, paramErr \in BOOLEAN :
          IF paramErr
          THEN /\ hd' = [hd EXCEPT ![h] = [HdIdle EXCEPT !.kind = req[1], !.variant = req[2],
                                                         !.result = "error"]]
               /\ pc' = [pc EXCEPT ![h] = "h_done"]
               /\ UNCHANGED rd
          ELSE /\ hd' = [hd EXCEPT ![h] = [HdIdle EXCEPT !.kind = req[1], !.variant = req[2],
                                                         !.owner = owner, !.repo = repo]]
               /\ rd' = [rd EXCEPT ![h] = [RdIdle EXCEPT !.ref = SprintfRepoURL(owner, repo)]]
               /\ pc' = [pc EXCEPT ![h] = "a_lock"]
    /\ UNCHANGED <<initialized, accessibleRepos, mu, exited, ini, obs, hist, norm, cmd, rg>>

\* the tools whose handlers call no validator: GetCommit, ListTags, GetTag,
\* ListReleases, GetIssue
UngatedRequests ==
    { <<"get_commit", "any">>, <<"list_tags", "any">>, <<"get_tag", "any">>,
      <<"list_releases", "any">>, <<"get_issue", "any">> }

\* the request of such a tool arrives; one of its parameters fails, or the
\* handler goes on to getClient
UngatedCall(h) ==
    /\ ~exited
    /\ pc[h] = "idle"
    /\ \E req \in UngatedRequests, owner \in OwnerInputs, repo \in RepoInputs,
          paramErr \in BOOLEAN :
          IF paramErr
          THEN /\ hd' = [hd EXCEPT ![h] = [HdIdle EXCEPT !.kind = req[1], !.variant = req[2],
                                                         !.result = "error"]]
               /\ pc' = [pc EXCEPT ![h] = "h_done"]
          ELSE /\ hd' = [hd EXCEPT ![h] = [HdIdle EXCEPT !.kind = req[1], !.variant = req[2],
                                                         !.owner = owner, !.repo = repo]]
               /\ pc' = [pc EXCEPT ![h] = "h_call"]
    /\ UNCHANGED <<initialized, accessibleRepos, mu, exited, ini, rd, obs, hist, norm, cmd, rg>>

\* if err != nil { return error result }; if !accessible { return "Access denied" }
HandlerValidate(h) ==
    /\ ~exited
    /\ pc[h] = "h_gate"
    /\ LET decision == AccessValidation(rd[h].res)
       IN  IF decision = "proceed"
           THEN /\ pc' = [pc EXCEPT ![h] = "h_rest"]
                /\ UNCHANGED hd
           ELSE /\ pc' = [pc EXCEPT ![h] = "h_done"]
                /\ hd' = [hd EXCEPT ![h].result = decision]
    /\ UNCHANGED <<initialized, accessibleRepos, mu, exited, ini, rd, obs, hist, norm, cmd, rg>>

\* the parameters read after the validation (path, ref, sha, branch,
\* pagination): one of them fails, or the handler goes on to getClient
HandlerRestParams(h) ==
    /\ ~exited
    /\ pc[h] = "h_rest"
    /\ \E paramErr \in BOOLEAN :
          IF paramErr
          THEN /\ pc' = [pc EXCEPT ![h] = "h_done"]
               /\ hd' = [hd EXCEPT ![h].result = "error"]
          ELSE /\ pc' = [pc EXCEPT ![h] = "h_call"]
               /\ UNCHANGED hd
    /\ UNCHANGED <<initialized, accessibleRepos, mu, exited, ini, rd, obs, hist, norm, cmd, rg>>

\* the next provider call is made and answers
HandlerProviderCall(h) ==
    /\ ~exited
    /\ pc[h] = "h_call"
    /\ LET step == ProviderCalls(hd[h].kind, hd[h].variant)[hd[h].calls + 1]
       IN  \E outcome \in step.outcomes :
              CASE outcome = "next" ->
                      /\ hd' = [hd EXCEPT ![h].calls = @ + 1]
                      /\ UNCHANGED pc
                [] outcome = "done" ->
                      /\ hd' = [hd EXCEPT ![h].calls = @ + 1, ![h].result = "ok"]
                      /\ pc' = [pc EXCEPT ![h] = "h_done"]
                [] outcome = "error" ->
                      /\ hd' = [hd EXCEPT ![h].calls = @ + 1, ![h].result = "error"]
                      /\ pc' = [pc EXCEPT ![h] = "h_done"]
    /\ UNCHANGED <<initialized, accessibleRepos, mu, exited, ini, rd, obs, hist, norm, cmd, rg>>

\* the handler returns its result
HandlerReturn(h) ==
    /\ ~exited
    /\ pc[h] = "h_done"
    /\ pc' = [pc EXCEPT ![h] = "idle"]
    /\ hd' = [hd EXCEPT ![h] = HdIdle]
    /\ rd' = [rd EXCEPT ![h] = RdIdle]
    /\ UNCHANGED <<initialized, accessibleRepos, mu, exited, ini, obs, hist, norm, cmd, rg>>

(***************************************************************************)
(* The validator with its concurrent callers.                              *)
(***************************************************************************)
InitializerStep(p) ==
    \/ InitializeCall(p)
    \/ DeadlineElapses(p)
    \/ InitializeLock(p)
    \/ InitializeCheck(p)
    \/ FetchReturn(p)
    \/ FetchFatal(p)
    \/ InitializeClear(p)
    \/ InitializeInsert(p)
    \/ InitializeSet(p)
    \/ InitializeReturn(p)

ReaderStep(p) ==
    \/ IsAccessibleCall(p)
    \/ IsAccessibleRLock(p)
    \/ IsAccessibleBody(p)
    \/ IsAccessibleReturn(p)
    \/ SnapshotCall(p)
    \/ SnapshotRLock(p)
    \/ SnapshotBody(p)
    \/ SnapshotReturn(p)

FirstInitializer == <<"init", 1>>

\* one Initialize caller and the readers
Next ==
    \/ InitializerStep(FirstInitializer)
    \/ \E p \in Readers : ReaderStep(p)

Spec == Init /\ [][Next]_vars

\* the Initialize callers among themselves
NextInit == \E p \in Initializers : InitializerStep(p)

SpecInit == Init /\ [][NextInit]_vars

HandlerStep(h) ==
    \/ HandlerCall(h)
    \/ IsAccessibleRLock(h)
    \/ IsAccessibleBody(h)
    \/ IsAccessibleReturn(h)
    \/ HandlerValidate(h)
    \/ HandlerRestParams(h)
    \/ HandlerProviderCall(h)
    \/ HandlerReturn(h)

\* one Initialize caller and the tool handlers
NextGate ==
    \/ InitializerStep(FirstInitializer)
    \/ \E h \in Handlers : HandlerStep(h)

SpecGate == Init /\ [][NextGate]_vars

UngatedStep(h) ==
    \/ UngatedCall(h)
    \/ HandlerProviderCall(h)
    \/ HandlerReturn(h)

\* one Initialize caller and the handlers of the tools without validation
NextTools ==
    \/ InitializerStep(FirstInitializer)
    \/ \E h \in UngatedHandlers : UngatedStep(h)

SpecTools == Init /\ [][NextTools]_vars

ClientStep(p) ==
    \/ ClientCall(p)
    \/ IsAccessibleRLock(p)
    \/ IsAccessibleBody(p)
    \/ IsAccessibleReturn(p)
    \/ SnapshotCall(p)
    \/ SnapshotRLock(p)
    \/ SnapshotBody(p)
    \/ SnapshotReturn(p)

\* one Initialize caller and a client
NextRead ==
    \/ InitializerStep(FirstInitializer)
    \/ \E p \in Clients : ClientStep(p)

SpecRead == Init /\ [][NextRead]_vars

(***************************************************************************)
(* The validate-access command: it builds its own validator, initializes   *)
(* it and asks it about one repository.                                    *)
(***************************************************************************)
\* a command that goes on after an error
CommandIgnoresError(err) == FALSE

\* if err != nil { return fmt.Errorf(...) }
CommandReturnsOnError(err) == err # "nil"

CmdCall(op, ok, err) == [op |-> op, ok |-> ok, err |-> err]

\* Steps 1 and 2: the flags user-email and repo-url are read; a flag that
\* cannot be read or is empty ends the command with an error
CommandFlags ==
    /\ ~exited
    /\ cmd.pc = "idle"
    /\ \E emailErr \in BOOLEAN, repoURL \in NormInputs :
          IF emailErr \/ repoURL = EMPTY
          THEN cmd' = [cmd EXCEPT !.pc = "c_done", !.ret = "error"]
          ELSE cmd' = [cmd EXCEPT !.pc = "c_init", !.repoURL = repoURL]
    /\ UNCHANGED <<initialized, accessibleRepos, mu, exited, pc, ini, rd, hd, obs, hist, norm, rg>>

\* Step 3: validator.Initialize() on the validator just built, which no
\* other goroutine holds
CommandInitialize ==
    /\ ~exited
    /\ cmd.pc = "c_init"
    /\ LockFree
    /\ \E fetchErr \in BOOLEAN, output \in Outputs :
          /\ fetchErr => output = EMPTY
          /\ LET repos == IF fetchErr THEN EMPTY ELSE fetchAccessibleRepositories(output)
                 err == IF InitializeIsNoOp(initialized) THEN "nil"
                        ELSE IF InitializeFails(fetchErr) THEN "FetchFailed"
                        ELSE "nil"
             IN  /\ IF InitializeIsNoOp(initialized) \/ InitializeFails(fetchErr)
                    THEN UNCHANGED <<initialized, accessibleRepos>>
                    ELSE /\ accessibleRepos' = Range(repos)
                         /\ initialized' = TRUE
                 /\ IF CommandReturnsOnError(err)
                    THEN cmd' = [cmd EXCEPT !.pc = "c_done", !.ret = "error",
                                            !.calls = Append(@, CmdCall("Initialize", FALSE, err))]
                    ELSE cmd' = [cmd EXCEPT !.pc = "c_check",
                                            !.calls = Append(@, CmdCall("Initialize", FALSE, err))]
    /\ UNCHANGED <<mu, exited, pc, ini, rd, hd, obs, hist, norm, rg>>

\* initialise inside Initialize ends the process with log.Fatalf
CommandFatal ==
    /\ ~exited
    /\ cmd.pc = "c_init"
    /\ exited' = TRUE
    /\ UNCHANGED <<initialized, accessibleRepos, mu, pc, ini, rd, hd, obs, hist, norm, cmd, rg>>

\* Steps 4 and 5: validator.IsRepositoryAccessible(repoURL); an error ends
\* the command, otherwise the result is printed
CommandCheck ==
    /\ ~exited
    /\ cmd.pc = "c_check"
    /\ RLockFree
    /\ LET res == IsRepositoryAccessible(initialized, accessibleRepos, cmd.repoURL)
           calls == Append(cmd.calls, CmdCall("IsRepositoryAccessible", res.ok, res.err))
       IN  IF CommandReturnsOnError(res.err)
           THEN cmd' = [cmd EXCEPT !.pc = "c_done", !.ret = "error", !.calls = calls]
           ELSE cmd' = [cmd EXCEPT !.pc = "c_done", !.ret = "nil", !.calls = calls,
                                   !.out = IF res.ok THEN "hasAccess true"
                                           ELSE "hasAccess false"]
    /\ UNCHANGED <<initialized, accessibleRepos, mu, exited, pc, ini, rd, hd, obs, hist, norm, rg>>

NextCommand ==
    \/ CommandFlags
    \/ CommandInitialize
    \/ CommandFatal
    \/ CommandCheck

SpecCommand == Init /\ [][NextCommand]_vars

(***************************************************************************)
(* resolveGitReference.                                                    *)
(***************************************************************************)
REFS == <<"r", "e", "f", "s", "/">>
HEADS == <<"h", "e", "a", "d", "s", "/">>
TAGS == <<"t", "a", "g", "s", "/">>
\* the ref arguments: none, fully qualified, partially qualified, short names
RefArgs ==
    { EMPTY, REFS \o HEADS \o <<"m">>, HEADS \o <<"m">>, TAGS \o <<"v">>,
      <<"m">>, <<"v">> }
ShaArgs == {"", "abc"}
\* how an API call ends: found, 404 Not Found, another status, an error that
\* is no *github.ErrorResponse
Outcomes == {"ok", "404", "500", "neterr"}
\* the commit SHAs a found reference carries
Shas == {"s1", "s2"}
DefaultBranch == <<"m">>

\* a test that takes every error for Not Found
IsNotFoundAnyError(outcome) == outcome # "ok"

\* isGhErr && ghErr.Response.StatusCode == http.StatusNotFound
IsNotFound(outcome) == outcome = "404"

Lookup(call, name, outcome) == [call |-> call, name |-> name, outcome |-> outcome]

\* the call, the test of sha and the switch on originalRef
ResolveCall ==
    /\ rg.pc = "idle"
    /\ \E owner \in OwnerInputs, repo \in RepoInputs, ref \in RefArgs, sha \in ShaArgs :
          LET args == [RgIdle EXCEPT !.owner = owner, !.repo = repo,
                                     !.originalRef = ref, !.sha = sha, !.ref = ref]
          IN  IF sha # ""
              THEN rg' = [args EXCEPT !.pc = "r_done", !.ref = EMPTY, !.ret = "ok",
                                      !.resultSHA = sha]
              ELSE IF ref = EMPTY
              THEN rg' = [args EXCEPT !.pc = "r_repo"]
              ELSE IF HasPrefix(ref, REFS)
              THEN rg' = [args EXCEPT !.pc = "r_final"]
              ELSE IF HasPrefix(ref, HEADS) \/ HasPrefix(ref, TAGS)
              THEN rg' = [args EXCEPT !.pc = "r_final", !.ref = REFS \o ref]
              ELSE rg' = [args EXCEPT !.pc = "r_branch"]
    /\ UNCHANGED <<initialized, accessibleRepos, mu, exited, pc, ini, rd, hd, obs, hist, norm, cmd>>

\* 2a) githubClient.Repositories.Get for the default branch
ResolveDefaultBranch ==
    /\ rg.pc = "r_repo"
    /\ \E outcome \in Outcomes :
          LET lookups == Append(rg.lookups, Lookup("Repositories.Get", EMPTY, outcome))
          IN  IF outcome = "ok"
              THEN rg' = [rg EXCEPT !.pc = "r_final", !.lookups = lookups,
                                    !.ref = REFS \o HEADS \o DefaultBranch]
              ELSE rg' = [rg EXCEPT !.pc = "r_done", !.lookups = lookups, !.ret = "error"]
    /\ UNCHANGED <<initialized, accessibleRepos, mu, exited, pc, ini, rd, hd, obs, hist, norm, cmd>>

\* 2d) githubClient.Git.GetRef of refs/heads/<originalRef>
ResolveBranch ==
    /\ rg.pc = "r_branch"
    /\ \E outcome \in Outcomes, sha \in Shas :
          LET branchRef == REFS \o HEADS \o rg.originalRef
              lookups == Append(rg.lookups, Lookup("Git.GetRef", branchRef, outcome))
          IN  IF outcome = "ok"
              THEN rg' = [rg EXCEPT !.pc = "r_final", !.lookups = lookups, !.ref = branchRef,
                                    !.reference = [name |-> branchRef, sha |-> sha]]
              ELSE IF IsNotFound(outcome)
              THEN rg' = [rg EXCEPT !.pc = "r_tag", !.lookups = lookups]
              ELSE rg' = [rg EXCEPT !.pc = "r_done", !.lookups = lookups, !.ret = "error"]
    /\ UNCHANGED <<initialized, accessibleRepos, mu, exited, pc, ini, rd, hd, obs, hist, norm, cmd>>

\* githubClient.Git.GetRef of refs/tags/<originalRef>
ResolveTag ==
    /\ rg.pc = "r_tag"
    /\ \E outcome \in Outcomes, sha \in Shas :
          LET tagRef == REFS \o TAGS \o rg.originalRef
              lookups == Append(rg.lookups, Lookup("Git.GetRef", tagRef, outcome))
          IN  IF outcome = "ok"
              THEN rg' = [rg EXCEPT !.pc = "r_final", !.lookups = lookups, !.ref = tagRef,
                                    !.reference = [name |-> tagRef, sha |-> sha]]
              ELSE rg' = [rg EXCEPT !.pc = "r_done", !.lookups = lookups, !.ret = "error"]
    /\ UNCHANGED <<initialized, accessibleRepos, mu, exited, pc, ini, rd, hd, obs, hist, norm, cmd>>

\* 3) if reference == nil, githubClient.Git.GetRef of ref; the SHA of the
\* reference is returned
ResolveFinal ==
    /\ rg.pc = "r_final"
    /\ IF rg.reference = NoReference
       THEN \E outcome \in Outcomes, sha \in Shas :
               LET lookups == Append(rg.lookups, Lookup("Git.GetRef", rg.ref, outcome))
               IN  IF outcome = "ok"
                   THEN rg' = [rg EXCEPT !.pc = "r_done", !.lookups = lookups, !.ret = "ok",
                                         !.resultSHA = sha,
                                         !.reference = [name |-> rg.ref, sha |-> sha]]
                   ELSE rg' = [rg EXCEPT !.pc = "r_done", !.lookups = lookups,
                                         !.ret = "error"]
       ELSE rg' = [rg EXCEPT !.pc = "r_done", !.ret = "ok", !.resultSHA = rg.reference.sha]
    /\ UNCHANGED <<initialized, accessibleRepos, mu, exited, pc, ini, rd, hd, obs, hist, norm, cmd>>

\* the caller has the result
ResolveReturn ==
    /\ rg.pc = "r_done"
    /\ rg' = RgIdle
    /\ UNCHANGED <<initialized, accessibleRepos, mu, exited, pc, ini, rd, hd, obs, hist, norm, cmd>>

NextResolve ==
    \/ ResolveCall
    \/ ResolveDefaultBranch
    \/ ResolveBranch
    \/ ResolveTag
    \/ ResolveFinal
    \/ ResolveReturn

SpecResolve == Init /\ [][NextResolve]_vars

(***************************************************************************)
(* normalizeRepositoryURL with its callers.                                *)
(***************************************************************************)
\* a caller takes two arguments
NormalizeCall ==
    /\ norm.pc = "idle"
    /\ \E x \in NormInputs, y \in NormInputs :
          norm' = [NormIdle EXCEPT !.pc = "called", !.x = x, !.y = y]
    /\ UNCHANGED <<initialized, accessibleRepos, mu, exited, pc, ini, rd, hd, obs, hist, cmd, rg>>

\* normalizeRepositoryURL(x) and normalizeRepositoryURL(y) return
NormalizeApply ==
    /\ norm.pc = "called"
    /\ norm' = [norm EXCEPT !.pc = "once",
                            !.nx = normalizeRepositoryURL(norm.x),
                            !.ny = normalizeRepositoryURL(norm.y)]
    /\ UNCHANGED <<initialized, accessibleRepos, mu, exited, pc, ini, rd, hd, obs, hist, cmd, rg>>

\* the result for x, when there is one, is normalized again
NormalizeAgain ==
    /\ norm.pc = "once"
    /\ ~norm.nx.err
    /\ norm' = [norm EXCEPT !.pc = "twice", !.nnx = normalizeRepositoryURL(norm.nx.key)]
    /\ UNCHANGED <<initialized, accessibleRepos, mu, exited, pc, ini, rd, hd, obs, hist, cmd, rg>>

NormalizeDone ==
    /\ norm.pc \in {"once", "twice"}
    /\ norm' = NormIdle
    /\ UNCHANGED <<initialized, accessibleRepos, mu, exited, pc, ini, rd, hd, obs, hist, cmd, rg>>

NextNorm ==
    \/ NormalizeCall
    \/ NormalizeApply
    \/ NormalizeAgain
    \/ NormalizeDone

SpecNorm == Init /\ [][NextNorm]_vars

(***************************************************************************)
(* The claims.                                                             *)
(***************************************************************************)
Granted == [ok |-> TRUE, err |-> "nil"]

\* C1: a gated handler makes a provider call (getClient, getRawClient, a
\* GitHub API call) only after IsRepositoryAccessible has returned
\* (true, nil) for github.com/<owner>/<repo> of its request; when the
\* validator returned an error or false, the handler returns an error
\* result and has made no provider call.
C1_GateBeforeProviderCall ==
    \A h \in Handlers :
        /\ (hd[h].calls > 0 \/ pc[h] = "h_call") =>
              /\ rd[h].res = Granted
              /\ rd[h].ref = SprintfRepoURL(hd[h].owner, hd[h].repo)
        /\ (pc[h] = "h_done" /\ rd[h].res.err # "none" /\ rd[h].res # Granted) =>
              /\ hd[h].result \in {"error", "denied"}
              /\ hd[h].calls = 0

\* a handler has returned a result after its provider calls
C1_Witness ==
    \E h \in Handlers :
        pc[h] = "h_done" /\ hd[h].calls > 1 /\ hd[h].result = "ok" /\ rd[h].res = Granted

\* C2: IsRepositoryAccessible, returning while the validator is not
\* initialized (never initialized, or after a failed Initialize), returns
\* the NotInitialized error for every reference, and never (false, nil).
C2_NotReadyIsNotInitialized ==
    \A p \in Callers :
        (pc[p] = "a_ret" /\ ~initialized) =>
            rd[p].res = [ok |-> FALSE, err |-> "NotInitialized"]

\* after a failed Initialize, a reader is told NotInitialized for a reference
\* that does not normalize
C2_Witness ==
    \E p \in Readers :
        /\ pc[p] = "a_ret" /\ ~initialized /\ hist.everFailed
        /\ rd[p].ref = RefOwnerOnly
        /\ rd[p].res.err = "NotInitialized"

\* C3: whatever the interleaving with Initialize, GetAccessibleRepositories
\* returns nothing or every fetched key (every fetched key once the
\* validator is initialized), IsRepositoryAccessible returns NotInitialized
\* or the answer the complete fetched set gives, and a call that started
\* after an Initialize returned nil gets the answer of the complete set.
C3_ReadersSeeAllOrNothing ==
    \A p \in Readers :
        /\ pc[p] = "s_ret" =>
              /\ Range(rd[p].snap) \in {{}, hist.fetched}
              /\ initialized => Range(rd[p].snap) = hist.fetched
        /\ pc[p] = "a_ret" =>
              \/ rd[p].res.err = "NotInitialized" /\ ~obs[p].afterOk
              \/ rd[p].res = IsRepositoryAccessible(TRUE, hist.fetched, rd[p].ref)

\* readers wait for the lock while Initialize has stored one key of two
C3_Witness ==
    /\ pc[FirstInitializer] = "i_insert"
    /\ accessibleRepos # {}
    /\ accessibleRepos # Range(ini[FirstInitializer].repos)
    /\ \E p, q \in Readers : pc[p] = "s_lock" /\ pc[q] = "a_lock"

Fetching == {p \in Initializers : pc[p] = "i_fetch"}

\* C4: at most one fetch of the validator is in progress at any time.
C4_OneFetchAtATime == Cardinality(Fetching) <= 1

\* one caller fetches while another waits for the lock
C4_Witness ==
    \E p, q \in Initializers : pc[p] = "i_fetch" /\ pc[q] = "i_lock"

\* C5, as claimed: a caller that waited while another caller's attempt ended
\* performs no fetch of its own and returns that attempt's outcome.
C5_WaitersShareOutcome ==
    \A p \in Initializers :
        obs[p].waited # "none" =>
            /\ pc[p] # "i_fetch"
            /\ obs[p].fetched = "none"
            /\ pc[p] = "i_ret" =>
                  ini[p].ret = (IF obs[p].waited = "ok" THEN "nil" ELSE "FetchFailed")

\* C5, amended: a caller that waited while another caller's attempt
\* succeeded performs no fetch and returns nil; a caller that waited while
\* the attempt failed performs its own fetch and returns its outcome.
C5_WaitersFetchOnlyAfterFailure ==
    \A p \in Initializers :
        /\ obs[p].waited = "ok" =>
              /\ pc[p] # "i_fetch"
              /\ obs[p].fetched = "none"
              /\ pc[p] = "i_ret" => ini[p].ret = "nil"
        /\ (obs[p].waited = "err" /\ pc[p] = "i_ret") =>
              /\ obs[p].fetched # "none"
              /\ ini[p].ret = (IF obs[p].fetched = "ok" THEN "nil" ELSE "FetchFailed")

\* a caller that waited while an attempt succeeded returns without a fetch
C5_Witness ==
    \E p \in Initializers :
        pc[p] = "i_ret" /\ obs[p].waited = "ok" /\ ini[p].ret = "nil"

\* C6: when the fetch of an Initialize call ends in an error, the call
\* returns an error, the validator is not initialized, the set is empty as
\* before the call, and IsRepositoryAccessible returns NotInitialized from
\* then on, as long as no Initialize has succeeded.
C6_FailedFetchCommitsNothing ==
    /\ \A p \in Initializers :
          (pc[p] = "i_ret" /\ obs[p].fetched = "err") =>
              /\ ini[p].ret = "FetchFailed"
              /\ ~initialized
              /\ accessibleRepos = {}
    /\ \A r \in Readers :
          (pc[r] = "a_ret" /\ hist.everFailed /\ ~initialized) =>
              /\ rd[r].res.err = "NotInitialized"
              /\ accessibleRepos = {}

\* an Initialize call returns the error of its fetch
C6_Witness ==
    \E p \in Initializers :
        pc[p] = "i_ret" /\ obs[p].fetched = "err" /\ ini[p].ret = "FetchFailed"

\* C7, as claimed: an Initialize call whose deadline was over before its
\* fetch completed, on a validator that was not initialized, returns
\* FetchFailed and leaves the validator not initialized.
C7_ExpiredDeadlineAbandonsFetch ==
    \A p \in Initializers :
        (pc[p] = "i_ret" /\ ini[p].deadline /\ ~obs[p].readyAtLock) =>
            /\ ini[p].ret = "FetchFailed"
            /\ ~initialized

\* C8, as claimed: the call that makes the validator initialized was made
\* after every failed attempt.
C8_ReadyOnlyByCallMadeAfterFailure ==
    \A p \in Initializers :
        (pc[p] = "i_ret" /\ obs[p].fetched = "ok") => ~obs[p].staleCall

\* C8, amended: the validator becomes initialized only by the step of an
\* Initialize call that returns nil, whose own fetch succeeded and began
\* after every failed attempt (the call took the lock after the failure,
\* though it may have been made before it).
C8_ReadyOnlyByFreshAttempt ==
    [][(~initialized /\ initialized') =>
          \E p \in Initializers :
              /\ pc[p] = "i_insert" /\ pc'[p] = "i_ret"
              /\ ini'[p].ret = "nil"
              /\ obs[p].fetched = "ok"
              /\ ~obs[p].staleAttempt]_vars

\* a call made before a failure has made the validator initialized
C8_Witness ==
    \E p \in Initializers :
        pc[p] = "i_ret" /\ obs[p].staleCall /\ obs[p].fetched = "ok" /\ initialized

\* C9: after a failed attempt, an Initialize call that finds the validator
\* not initialized performs a fetch, and when that fetch succeeds the
\* validator is initialized with exactly the keys just fetched.
C9_RetryFetchesAfresh ==
    \A p \in Initializers :
        (pc[p] = "i_ret" /\ hist.everFailed /\ ~obs[p].readyAtLock) =>
            /\ obs[p].fetched # "none"
            /\ obs[p].fetched = "ok" =>
                  /\ initialized
                  /\ ini[p].ret = "nil"
                  /\ accessibleRepos = Range(ini[p].repos)
                  /\ accessibleRepos = hist.fetched

\* a call made after a failure has fetched two keys and stored them
C9_Witness ==
    \E p \in Initializers :
        /\ pc[p] = "i_ret" /\ hist.everFailed /\ ~obs[p].staleCall
        /\ obs[p].fetched = "ok"
        /\ Cardinality(accessibleRepos) = 2

\* C10: once the validator is initialized, no step makes it uninitialized
\* or changes its set, no fetch begins or is in progress, and every
\* Initialize call that found it initialized returns nil.
C10_ReadyInitializeIsNoOp ==
    [][initialized =>
          /\ initialized'
          /\ accessibleRepos' = accessibleRepos
          /\ hist'.fetched = hist.fetched
          /\ \A p \in Initializers :
                /\ pc[p] # "i_fetch" /\ pc'[p] # "i_fetch"
                /\ (pc[p] = "i_ret" /\ obs[p].readyAtLock) => ini[p].ret = "nil"]_vars

\* a second caller returns from an initialized validator while a third call
\* is already waiting
C10_Witness ==
    \E p, q \in Initializers :
        /\ pc[p] = "i_ret" /\ obs[p].readyAtLock /\ ini[p].ret = "nil"
        /\ pc[q] = "i_lock"
        /\ hist.initReturnedOk
        /\ accessibleRepos # {}

NotInSet == [ok |-> FALSE, err |-> "nil"]
InvalidReference == [ok |-> FALSE, err |-> "InvalidReference"]

\* C11: on an initialized validator, IsRepositoryAccessible of a reference
\* that normalizes returns (true, nil) when the normalized reference is a
\* key of the set (the keys of the successful fetch) and (false, nil)
\* otherwise.
C11_LookupOfNormalizedKey ==
    \A c \in Clients :
        LET n == normalizeRepositoryURL(rd[c].ref)
        IN  (pc[c] = "a_ret" /\ initialized /\ ~n.err) =>
                /\ rd[c].res = [ok |-> n.key \in accessibleRepos, err |-> "nil"]
                /\ rd[c].res.ok <=> n.key \in hist.fetched

\* a URL with a scheme and a .git ending is found in a set of two keys
C11_Witness ==
    \E c \in Clients :
        /\ pc[c] = "a_ret" /\ initialized
        /\ rd[c].ref = HTTP \o GITHUB \o SLASH \o RefShort \o DOTGIT
        /\ rd[c].res = Granted
        /\ Cardinality(accessibleRepos) = 2

\* the lower-case form of a reference
Lower(c) ==
    CASE c = "A" -> "a"
      [] c = "B" -> "b"
      [] c = "G" -> "g"
      [] c = "H" -> "h"
      [] c = "Q" -> "q"
      [] c = "R" -> "r"
      [] OTHER -> c
ToLower(s) == [i \in 1..Len(s) |-> Lower(s[i])]

\* C12, as claimed: on an initialized validator, a reference whose
\* lower-case form normalizes to a key of the set is reported accessible,
\* in whatever letter case it is written.
C12_CaseVariantsAccessible ==
    \A c \in Clients :
        LET n == normalizeRepositoryURL(ToLower(rd[c].ref))
        IN  (pc[c] = "a_ret" /\ initialized /\ ~n.err /\ n.key \in accessibleRepos) =>
                rd[c].res = Granted

\* C13, as claimed: every key stored in the set is a canonical key:
\* normalizeRepositoryURL of it succeeds and returns it.
C13_StoredKeysAreCanonical ==
    \A k \in accessibleRepos :
        normalizeRepositoryURL(k) = [key |-> k, err |-> FALSE]

\* the keys of the entries of res.Output that give a valid key
ValidKeys(output) ==
    LET refs == {SprintfRepoURL(node.org, node.name) : node \in Range(output)}
    IN  {normalizeRepositoryURL(r).key : r \in {q \in refs : ~normalizeRepositoryURL(q).err}}

\* C14, as claimed: an Initialize whose fetch returned without error returns
\* nil, and the set then holds exactly the keys of the entries that give a
\* valid key, whatever entries res.Output held besides them.
C14_InvalidEntriesSkipped ==
    \A p \in Initializers :
        (pc[p] = "i_ret" /\ obs[p].fetched = "ok") =>
            /\ ini[p].ret = "nil"
            /\ initialized
            /\ \A output \in Outputs :
                  fetchAccessibleRepositories(output) = ini[p].repos =>
                      accessibleRepos = ValidKeys(output)

\* C15: when the fetch returns no repository, Initialize returns nil and
\* the validator is initialized with an empty set; IsRepositoryAccessible
\* then returns (false, nil), not NotInitialized, for every reference that
\* normalizes.
C15_EmptyFetchIsReady ==
    /\ \A p \in Initializers :
          (pc[p] = "i_ret" /\ obs[p].fetched = "ok" /\ ini[p].repos = EMPTY) =>
              /\ ini[p].ret = "nil"
              /\ initialized
              /\ accessibleRepos = {}
    /\ \A c \in Clients :
          (/\ pc[c] = "a_ret" /\ initialized /\ hist.fetched = {}
           /\ ~normalizeRepositoryURL(rd[c].ref).err) =>
              rd[c].res = NotInSet

\* after an empty fetch a reference that normalizes is answered (false, nil)
C15_Witness ==
    \E c \in Clients :
        /\ pc[c] = "a_ret" /\ initialized /\ hist.fetched = {} /\ accessibleRepos = {}
        /\ rd[c].ref = GITHUB \o SLASH \o RefShort
        /\ rd[c].res = NotInSet

\* C16: on an initialized validator, IsRepositoryAccessible of a reference
\* that does not normalize (empty, one segment, another host, an extra
\* segment) returns the InvalidReference error, never (false, nil).
C16_InvalidReferenceIsAnError ==
    \A c \in Clients :
        (pc[c] = "a_ret" /\ initialized /\ normalizeRepositoryURL(rd[c].ref).err) =>
            rd[c].res = InvalidReference

\* a URL of another host is answered InvalidReference by a validator whose
\* set is not empty
C16_Witness ==
    \E c \in Clients :
        /\ pc[c] = "a_ret" /\ initialized /\ accessibleRepos # {}
        /\ rd[c].ref = HTTPS \o OTHERHOST \o SLASH \o RefShort
        /\ rd[c].res = InvalidReference

InAccessibleCall(c) == pc[c] \in {"idle", "a_lock", "a_body", "a_ret"}

\* C17: no step of an IsRepositoryAccessible call (the call, the RLock, the
\* body, the return) starts or ends a fetch, changes initialized or the
\* set, or moves an Initialize call, in whatever state the validator is.
C17_IsAccessibleChangesNothing ==
    [][\A c \in Clients :
          (InAccessibleCall(c) /\ pc'[c] \in {"a_lock", "a_body", "a_ret", "idle"}
           /\ pc'[c] # pc[c]) =>
              /\ initialized' = initialized
              /\ accessibleRepos' = accessibleRepos
              /\ hist' = hist
              /\ ini' = ini
              /\ exited' = exited
              /\ mu'.writer = mu.writer
              /\ \A p \in Initializers : pc'[p] = pc[p]]_vars

\* after a failed Initialize, a call for a reference that normalizes has
\* been answered and the validator is as the failure left it
C17_Witness ==
    \E c \in Clients :
        /\ pc[c] = "a_ret" /\ ~initialized /\ hist.everFailed /\ accessibleRepos = {}
        /\ rd[c].ref = RefShort
        /\ rd[c].res.err = "NotInitialized"

InSnapshotCall(c) == pc[c] \in {"idle", "s_lock", "s_body", "s_ret"}

\* C18: GetAccessibleRepositories returns an empty sequence while the
\* validator is not initialized, and on an initialized validator the keys
\* of the set (the keys of the successful fetch), each once; no step of the
\* call changes initialized or the set.
C18_SnapshotIsTheSet ==
    [][\A c \in Clients :
          /\ (pc[c] = "s_body" /\ pc'[c] = "s_ret") =>
                /\ ~initialized => rd'[c].snap = EMPTY
                /\ initialized =>
                      /\ Range(rd'[c].snap) = accessibleRepos
                      /\ Range(rd'[c].snap) = hist.fetched
                      /\ Len(rd'[c].snap) = Cardinality(accessibleRepos)
          /\ (InSnapshotCall(c) /\ pc'[c] \in {"s_lock", "s_body", "s_ret", "idle"}
              /\ pc'[c] # pc[c]) =>
                /\ initialized' = initialized
                /\ accessibleRepos' = accessibleRepos
                /\ hist' = hist]_vars

\* a snapshot of two keys has been taken
C18_Witness ==
    \E c \in Clients :
        /\ pc[c] = "s_ret" /\ initialized
        /\ Len(rd[c].snap) = 2
        /\ Range(rd[c].snap) = accessibleRepos

\* C19, as claimed: when normalizeRepositoryURL(x) succeeds,
\* normalizeRepositoryURL of its result succeeds and returns the same key.
C19_NormalizeIdempotent ==
    norm.pc = "twice" => norm.nnx = norm.nx

\* C20, as claimed: two references that differ only in letter case
\* normalize alike (both fail, or both give the same key), and the key is
\* entirely lower-case.
C20_NormalizeCaseInsensitive ==
    (norm.pc \in {"once", "twice"} /\ ToLower(norm.x) = ToLower(norm.y)) =>
        /\ norm.nx = norm.ny
        /\ ~norm.nx.err => norm.nx.key = ToLower(norm.nx.key)

\* normalizeRepositoryURL(norm.x) has returned
Applied == norm.pc \in {"once", "twice"}
ValidOwners == OwnerNames \ {EMPTY}
ValidRepos == RepoNames \ {EMPTY}
KeyOf(o, r) == [key |-> GITHUB \o SLASH \o o \o SLASH \o r, err |-> FALSE]
ExtraSegment == SLASH \o <<"x">>

\* C21: for an owner o and a repository r, normalizeRepositoryURL returns
\* the key github.com/o/r for https://github.com/o/r, http://github.com/o/r,
\* github.com/o/r and o/r, and for each of them followed by .git.
C21_SchemeAndSuffixEquivalence ==
    \A form \in GithubForms, o \in ValidOwners, r \in ValidRepos, e \in {EMPTY, DOTGIT} :
        (Applied /\ norm.x = form \o o \o SLASH \o r \o e) => norm.nx = KeyOf(o, r)

\* an http URL with a .git ending has been normalized
C21_Witness ==
    /\ norm.pc = "once"
    /\ norm.x = HTTP \o GITHUB \o SLASH \o <<"A", "/", "R">> \o DOTGIT
    /\ norm.nx = KeyOf(<<"A">>, <<"R">>)

\* C22: normalizeRepositoryURL returns an error and no key for the empty
\* string, for a single segment, and for every reference whose owner or
\* repository segment is empty, in every form, with or without .git or a
\* further segment.
C22_EmptySegmentsRejected ==
    /\ (Applied /\ norm.x \in {EMPTY, <<"a">>}) => norm.nx = NormErr
    /\ \A form \in Forms, o \in OwnerNames, r \in RepoNames,
          e \in {EMPTY, DOTGIT, ExtraSegment} :
          (/\ Applied
           /\ o = EMPTY \/ r = EMPTY
           /\ norm.x = form \o o \o SLASH \o r \o e) => norm.nx = NormErr

\* a reference with an empty owner after the host has been rejected
C22_Witness ==
    /\ norm.pc = "once"
    /\ norm.x = GITHUB \o SLASH \o EMPTY \o SLASH \o <<"r">>
    /\ norm.nx = NormErr

\* C23, as claimed: a key returned by normalizeRepositoryURL is
\* github.com/<owner>/<repo> with two non-empty segments after the host, no
\* scheme, no .git ending and no trailing slash.
C23_KeyIsCanonical ==
    (Applied /\ ~norm.nx.err) =>
        LET parts == Split(norm.nx.key)
        IN  /\ Len(parts) = 3
            /\ parts[1] = GITHUB /\ parts[2] # EMPTY /\ parts[3] # EMPTY
            /\ ~HasSuffix(norm.nx.key, DOTGIT)
            /\ ~HasSuffix(norm.nx.key, SLASH)

C25_TooManySegmentsRejected ==
    \A form \in GithubForms, o \in OwnerNames, r \in RepoNames :
        (Applied /\ norm.x = form \o o \o SLASH \o r \o ExtraSegment) => norm.nx = NormErr

\* github.com/owner/repo/extra has been rejected
C25_Witness ==
    /\ norm.pc = "once"
    /\ norm.x = GITHUB \o SLASH \o RefShort \o ExtraSegment
    /\ norm.nx = NormErr

\* C26, as claimed: a URL whose host is not github.com is rejected, and
\* github.com is matched in any letter case, as the host of a URL and as a
\* leading prefix without scheme.
C26_HostMatchedCaseInsensitively ==
    \A o \in ValidOwners, r \in ValidRepos :
        /\ (Applied /\ norm.x = HTTPS \o OTHERHOST \o SLASH \o o \o SLASH \o r) =>
              norm.nx = NormErr
        /\ (Applied /\ norm.x \in {HTTPS \o GITHUBMIXED \o SLASH \o o \o SLASH \o r,
                                   GITHUBMIXED \o SLASH \o o \o SLASH \o r}) =>
              norm.nx = KeyOf(o, r)

\* C27, as claimed: a handler of any tool that makes provider calls for an
\* owner/repo has made none before IsRepositoryAccessible returned for
\* github.com/<owner>/<repo> of its request.
C27_EveryHandlerValidatesFirst ==
    \A h \in Handlers \cup UngatedHandlers :
        hd[h].calls > 0 =>
            /\ rd[h].res # NoResult
            /\ rd[h].ref = SprintfRepoURL(hd[h].owner, hd[h].repo)

InitializeOk == CmdCall("Initialize", FALSE, "nil")

\* C28: the validate-access command calls IsRepositoryAccessible only
\* after its Initialize returned nil; when Initialize failed it returns an
\* error, has made no access check and has printed nothing; and it has
\* printed a hasAccess result only when the access check returned without
\* error, the result being the one the check gave.
C28_CommandFailsClosed ==
    LET n == Len(cmd.calls)
    IN  /\ \A i \in 1..n :
              cmd.calls[i].op = "IsRepositoryAccessible" =>
                  i > 1 /\ cmd.calls[i - 1] = InitializeOk
        /\ (\E i \in 1..n : cmd.calls[i].op = "Initialize" /\ cmd.calls[i].err # "nil") =>
              /\ cmd.pc = "c_done" /\ cmd.ret = "error"
              /\ cmd.out = "none"
              /\ \A i \in 1..n : cmd.calls[i].op # "IsRepositoryAccessible"
        /\ cmd.out # "none" =>
              /\ n = 2
              /\ cmd.calls[n].op = "IsRepositoryAccessible" /\ cmd.calls[n].err = "nil"
              /\ cmd.out = (IF cmd.calls[n].ok THEN "hasAccess true" ELSE "hasAccess false")
        /\ (n > 0 /\ cmd.calls[n].err # "nil") => cmd.out = "none" /\ cmd.ret = "error"

\* the command has printed hasAccess true
C28_Witness ==
    /\ cmd.pc = "c_done" /\ cmd.ret = "nil" /\ cmd.out = "hasAccess true"
    /\ Len(cmd.calls) = 2

\* C29, as claimed: on a validator initialized by a successful fetch,
\* every (org, name) of the fetch with a non-empty org and name is reported
\* accessible when asked for as github.com/<org>/<name> and as <org>/<name>.
C29_FetchedPairsAccessible ==
    \A c \in Clients, node \in Nodes :
        (/\ pc[c] = "a_ret" /\ initialized
         /\ node.org # EMPTY /\ node.name # EMPTY
         /\ SprintfRepoURL(node.org, node.name) \in hist.fetched
         /\ rd[c].ref \in {SprintfRepoURL(node.org, node.name),
                           node.org \o SLASH \o node.name}) =>
            rd[c].res = Granted

\* the call has no sha and a short ref name
ShortName ==
    /\ rg.pc # "idle"
    /\ rg.sha = ""
    /\ rg.originalRef # EMPTY
    /\ ~HasPrefix(rg.originalRef, REFS)
    /\ ~HasPrefix(rg.originalRef, HEADS)
    /\ ~HasPrefix(rg.originalRef, TAGS)

\* C30: in resolveGitReference with no sha and a short ref name, the lookup
\* of refs/tags/<ref> is made only as the second lookup, after the lookup of
\* refs/heads/<ref> ended 404; a lookup that ended in another error is the
\* last one and the call returns an error; a lookup that found the
\* reference is the last one, so that the reference is not fetched again.
C30_TagOnlyAfterBranchNotFound ==
    ShortName =>
        LET n == Len(rg.lookups)
            branchRef == REFS \o HEADS \o rg.originalRef
            tagRef == REFS \o TAGS \o rg.originalRef
        IN  /\ \A i \in 1..n :
                  /\ rg.lookups[i].name = tagRef =>
                        /\ i = 2
                        /\ rg.lookups[1] = Lookup("Git.GetRef", branchRef, "404")
                  /\ rg.lookups[i].name = branchRef => i = 1
                  /\ rg.lookups[i].outcome \notin {"ok", "404"} =>
                        i = n /\ rg.pc = "r_done" /\ rg.ret = "error"
                  /\ rg.lookups[i].outcome = "ok" =>
                        /\ i = n
                        /\ rg.reference.name = rg.lookups[i].name
            /\ n <= 2
            /\ rg.pc = "r_tag" => rg.lookups = <<Lookup("Git.GetRef", branchRef, "404")>>

\* a short name has been resolved as a tag after its branch was not found
C30_Witness ==
    /\ rg.pc = "r_done" /\ rg.ret = "ok"
    /\ rg.originalRef = <<"v">>
    /\ Len(rg.lookups) = 2
    /\ rg.lookups[1].outcome = "404" /\ rg.lookups[2].outcome = "ok"
    /\ rg.ref = REFS \o TAGS \o <<"v">>

====
